---- MODULE Spec2Model ----
(***************************************************************************)
(* Model of include/Dimensions/Dimensions.hpp: the CRTP classes            *)
(* Dimensions, MechanicalDimensions and MechanicalMassDimensions, a        *)
(* provider class deriving from one of them, and the accessors a program   *)
(* calls on an instance of the provider.                                   *)
(*                                                                         *)
(* A Real_ value is kept exactly.  The code only multiplies and divides    *)
(* (and, in the TimeScaleNotSet policy, takes one square root), so every   *)
(* value it can produce has the form                                       *)
(*     sgn * (n/d) * sqrt(s) * G^(g/2) * kB^(b/2) * pi^(p/2)               *)
(* with n/d a reduced fraction and s squarefree.  G and kB are the two     *)
(* physical constants of Dimensions.hpp:28-29, carried as symbols.         *)
(* Division by zero follows IEEE 754 (inf, nan, signed zero).  A call      *)
(* whose name lookup ends in the member function that is being deduced     *)
(* (a provider that does not define the accessor) is ill-formed and has    *)
(* no value: kind "illformed".                                             *)
(***************************************************************************)
EXTENDS Integers, FiniteSets, Sequences, TLC

VARIABLES unit_system, call, ret

vars == <<unit_system, call, ret>>

\* Largest base scale a provider returns in the model.
MaxScale == 3

\* Largest temperature scale a provider returns in the model.
MaxTemperature == 2

----------------------------------------------------------------------------
\* Real_ arithmetic

RECURSIVE GCD(_, _)
GCD(x, y) == IF y = 0 THEN x ELSE GCD(y, x % y)

\* m with every square factor k*k (k >= from) divided out
RECURSIVE SquareFree(_, _)
SquareFree(m, from) ==
    IF from * from > m THEN m
    ELSE IF m % (from * from) = 0 THEN SquareFree(m \div (from * from), from)
    ELSE SquareFree(m, from + 1)

\* the k with m = k*k * SquareFree(m, 2)
RECURSIVE Root(_, _)
Root(m, k) == IF k * k >= m THEN k ELSE Root(m, k + 1)

Mk(kind, sgn, n, d, s, g, b, p) ==
    [kind |-> kind, sgn |-> sgn, n |-> n, d |-> d, s |-> s,
     g |-> g, b |-> b, p |-> p]

NaN == Mk("nan", 1, 0, 1, 1, 0, 0, 0)

Inf(sgn) == Mk("inf", sgn, 0, 1, 1, 0, 0, 0)

IllFormed == Mk("illformed", 1, 0, 1, 1, 0, 0, 0)

NotCalled == Mk("none", 1, 0, 1, 1, 0, 0, 0)

Absent == Mk("absent", 1, 0, 1, 1, 0, 0, 0)

\* a finite value in normal form
Fin(sgn, n, d, s, g, b, p) ==
    IF n = 0 THEN Mk("fin", sgn, 0, 1, 1, 0, 0, 0)
    ELSE LET c == GCD(n, d)
         IN  Mk("fin", sgn, n \div c, d \div c, s, g, b, p)

\* static_cast<Real_>(x) of an integer literal x
Real(x) == Fin(IF x < 0 THEN -1 ELSE 1, IF x < 0 THEN -x ELSE x, 1, 1, 0, 0, 0)

IsZero(a) == a.kind = "fin" /\ a.n = 0

\* a * b
Mul(a, b) ==
    IF a.kind = "illformed" \/ b.kind = "illformed" THEN IllFormed
    ELSE IF a.kind = "nan" \/ b.kind = "nan" THEN NaN
    ELSE IF a.kind = "inf" \/ b.kind = "inf"
         THEN IF IsZero(a) \/ IsZero(b) THEN NaN ELSE Inf(a.sgn * b.sgn)
    ELSE LET c == GCD(a.s, b.s)
         IN  Fin(a.sgn * b.sgn, a.n * b.n * c, a.d * b.d,
                 (a.s \div c) * (b.s \div c),
                 a.g + b.g, a.b + b.b, a.p + b.p)

\* a / b
Div(a, b) ==
    IF a.kind = "illformed" \/ b.kind = "illformed" THEN IllFormed
    ELSE IF a.kind = "nan" \/ b.kind = "nan" THEN NaN
    ELSE IF b.kind = "inf"
         THEN IF a.kind = "inf" THEN NaN
              ELSE Fin(a.sgn * b.sgn, 0, 1, 1, 0, 0, 0)
    ELSE IF a.kind = "inf" THEN Inf(a.sgn * b.sgn)
    ELSE IF IsZero(b)
         THEN IF IsZero(a) THEN NaN ELSE Inf(a.sgn * b.sgn)
    ELSE Mul(a, Fin(b.sgn, b.d, b.n * b.s, b.s, -b.g, -b.b, -b.p))

\* std::sqrt(a), for a rational multiple of whole powers of G, kB and pi
Sqrt(a) ==
    IF a.kind \in {"illformed", "nan"} THEN a
    ELSE IF IsZero(a) THEN a
    ELSE IF a.sgn = -1 THEN NaN
    ELSE IF a.kind = "inf" THEN a
    ELSE LET m == a.n * a.d
             r == SquareFree(m, 2)
         IN  Fin(1, Root(m \div r, 1), a.d, r,
                 a.g \div 2, a.b \div 2, a.p \div 2)

One == Real(1)

\* const Real_ gravitationalConstant_ = 6.67430e-11, the symbol G
gravitationalConstant_ == Mk("fin", 1, 1, 1, 1, 2, 0, 0)

\* const Real_ boltzmannConstant_ = 1.380649e-23, the symbol kB
boltzmannConstant_ == Mk("fin", 1, 1, 1, 1, 0, 2, 0)

\* std::numbers::pi, the symbol pi
Pi == Mk("fin", 1, 1, 1, 1, 0, 0, 2)

----------------------------------------------------------------------------
\* The class templates.  u is an instance of the provider class:
\* u.variant is the class template it derives from, and u.X is the value
\* its own X() returns, or Absent when it does not declare X.

Defines(u, X) == u[X] # Absent

\* Derived().LengthScale(): the provider's member, otherwise the member of
\* the nearest base, which is the function whose return type is being deduced
Derived_LengthScale(u) ==
    IF Defines(u, "LengthScale") THEN u.LengthScale ELSE IllFormed

\* MechanicalMassDimensions::LengthScale
MechanicalMassDimensions_LengthScale(u) == Derived_LengthScale(u)

\* Dimensions::LengthScale
Dimensions_LengthScale(u) == Derived_LengthScale(u)

\* MechanicalMassDimensions::MassScale: Derived().MassScale()
MechanicalMassDimensions_MassScale(u) ==
    IF Defines(u, "MassScale") THEN u.MassScale ELSE IllFormed

\* MechanicalMassDimensions::DensityScale dividing by the squared length
MechanicalMassDimensions_DensityScale_SquaredLength(u) ==
    LET l_scale == Derived_LengthScale(u)
    IN  Div(MechanicalMassDimensions_MassScale(u), Mul(l_scale, l_scale))

\* MechanicalMassDimensions::DensityScale
MechanicalMassDimensions_DensityScale(u) ==
    LET l_scale == Derived_LengthScale(u)
    IN  Div(MechanicalMassDimensions_MassScale(u),
            Mul(Mul(l_scale, l_scale), l_scale))

\* Derived().DensityScale()
Derived_DensityScale(u) ==
    IF Defines(u, "DensityScale") THEN u.DensityScale
    ELSE IF u.variant = "MechanicalMassDimensions"
         THEN MechanicalMassDimensions_DensityScale(u)
    ELSE IllFormed

\* Dimensions::DensityScale
Dimensions_DensityScale(u) == Derived_DensityScale(u)

\* The default time without the square root
DefaultTimeScale_NoSqrt(u) ==
    Div(One, Mul(Mul(Pi, gravitationalConstant_), Dimensions_DensityScale(u)))

\* The free-fall time of the TimeScaleNotSet policy
DefaultTimeScale(u) ==
    Div(One, Sqrt(Mul(Mul(Pi, gravitationalConstant_),
                      Dimensions_DensityScale(u))))

\* Derived().TimeScale()
Derived_TimeScale(u) ==
    IF Defines(u, "TimeScale") THEN u.TimeScale
    ELSE IF u.variant = "TimeScaleNotSet" THEN DefaultTimeScale(u)
    ELSE IllFormed

\* Dimensions::TimeScale
Dimensions_TimeScale(u) == Derived_TimeScale(u)

\* MechanicalDimensions::TemperatureScale returning a zero default
MechanicalDimensions_TemperatureScale_Zero(u) == Real(0)

\* MechanicalDimensions::TemperatureScale
MechanicalDimensions_TemperatureScale(u) == Real(1)

\* Derived().TemperatureScale()
Derived_TemperatureScale(u) ==
    IF Defines(u, "TemperatureScale") THEN u.TemperatureScale
    ELSE IF u.variant \in {"MechanicalDimensions", "MechanicalMassDimensions"}
         THEN MechanicalDimensions_TemperatureScale(u)
    ELSE IllFormed

\* Dimensions::TemperatureScale
Dimensions_TemperatureScale(u) == Derived_TemperatureScale(u)

\* Dimensions::GravitationalConstant multiplying by the time only once
GravitationalConstant_SingleTime(u) ==
    LET t_scale == Dimensions_TimeScale(u)
    IN  Mul(Mul(gravitationalConstant_, Dimensions_DensityScale(u)), t_scale)

\* Dimensions::GravitationalConstant
GravitationalConstant(u) ==
    LET t_scale == Dimensions_TimeScale(u)
    IN  Mul(Mul(Mul(gravitationalConstant_, Dimensions_DensityScale(u)),
                t_scale), t_scale)

\* Dimensions::MassScale multiplying by the squared length
Dimensions_MassScale_SquaredLength(u) ==
    LET l_scale == Dimensions_LengthScale(u)
    IN  Mul(Mul(Dimensions_DensityScale(u), l_scale), l_scale)

\* Dimensions::MassScale
Dimensions_MassScale(u) ==
    LET l_scale == Dimensions_LengthScale(u)
    IN  Mul(Mul(Mul(Dimensions_DensityScale(u), l_scale), l_scale), l_scale)

\* Dimensions::VelocityScale
VelocityScale(u) == Div(Dimensions_LengthScale(u), Dimensions_TimeScale(u))

\* Dimensions::AccelerationScale
AccelerationScale(u) == Div(VelocityScale(u), Dimensions_TimeScale(u))

\* Dimensions::ForceScale
ForceScale(u) == Mul(Dimensions_MassScale(u), AccelerationScale(u))

\* Dimensions::TractionScale
TractionScale(u) ==
    LET l_scale == Dimensions_LengthScale(u)
    IN  Div(ForceScale(u), Mul(l_scale, l_scale))

\* Dimensions::MomentScale
MomentScale(u) == Mul(ForceScale(u), Dimensions_LengthScale(u))

\* Dimensions::PotentialScale
PotentialScale(u) == Mul(AccelerationScale(u), Dimensions_LengthScale(u))

\* Dimensions::EnergyScale multiplying by the velocity only once
EnergyScale_SingleVelocity(u) ==
    LET v_scale == VelocityScale(u)
    IN  Mul(Dimensions_MassScale(u), v_scale)

\* Dimensions::EnergyScale
EnergyScale(u) ==
    LET v_scale == VelocityScale(u)
    IN  Mul(Mul(Dimensions_MassScale(u), v_scale), v_scale)

\* Dimensions::BoltzmannConstant
BoltzmannConstant(u) ==
    Div(Mul(boltzmannConstant_, Dimensions_TemperatureScale(u)),
        EnergyScale(u))

----------------------------------------------------------------------------
\* The members a program reaches through an instance, unit_system.X():
\* lookup starts in the provider class and walks up its bases.

LengthScale(u) ==
    IF Defines(u, "LengthScale") THEN u.LengthScale
    ELSE IF u.variant = "MechanicalMassDimensions"
         THEN MechanicalMassDimensions_LengthScale(u)
    ELSE Dimensions_LengthScale(u)

DensityScale(u) ==
    IF Defines(u, "DensityScale") THEN u.DensityScale
    ELSE IF u.variant = "MechanicalMassDimensions"
         THEN MechanicalMassDimensions_DensityScale(u)
    ELSE Dimensions_DensityScale(u)

MassScale(u) ==
    IF Defines(u, "MassScale") THEN u.MassScale
    ELSE IF u.variant = "MechanicalMassDimensions"
         THEN MechanicalMassDimensions_MassScale(u)
    ELSE Dimensions_MassScale(u)

TimeScale(u) ==
    IF Defines(u, "TimeScale") THEN u.TimeScale
    ELSE Dimensions_TimeScale(u)

TemperatureScale(u) ==
    IF Defines(u, "TemperatureScale") THEN u.TemperatureScale
    ELSE IF u.variant \in {"MechanicalDimensions", "MechanicalMassDimensions"}
         THEN MechanicalDimensions_TemperatureScale(u)
    ELSE Dimensions_TemperatureScale(u)

----------------------------------------------------------------------------
\* Providers

ScaleValues == {Real(x) : x \in -1 .. MaxScale}

TemperatureValues == {Real(x) : x \in 1 .. MaxTemperature}

Providers(variants, times) ==
    [variant : variants,
     LengthScale : ScaleValues \cup {Absent},
     DensityScale : ScaleValues \cup {Absent},
     MassScale : ScaleValues \cup {Absent},
     TimeScale : times,
     TemperatureScale : TemperatureValues \cup {Absent}]

\* the class templates of Dimensions.hpp
SrcProviders ==
    Providers({"Dimensions", "MechanicalDimensions",
               "MechanicalMassDimensions"}, ScaleValues \cup {Absent})

\* the two provider shapes of examples/ex1.cpp
Ex1Providers ==
    Providers({"Dimensions"}, ScaleValues)
      \cup Providers({"TimeScaleNotSet"}, {Absent})

Init ==
    /\ unit_system \in SrcProviders
    /\ call = "none"
    /\ ret = NotCalled

InitEx1 ==
    /\ unit_system \in Ex1Providers
    /\ call = "none"
    /\ ret = NotCalled

Returns(name, value) ==
    /\ call' = name
    /\ ret' = value
    /\ UNCHANGED unit_system

CallLengthScale == Returns("LengthScale", LengthScale(unit_system))

CallDensityScale == Returns("DensityScale", DensityScale(unit_system))

CallMassScale == Returns("MassScale", MassScale(unit_system))

CallTimeScale == Returns("TimeScale", TimeScale(unit_system))

CallTemperatureScale ==
    Returns("TemperatureScale", TemperatureScale(unit_system))

CallGravitationalConstant ==
    Returns("GravitationalConstant", GravitationalConstant(unit_system))

CallBoltzmannConstant ==
    Returns("BoltzmannConstant", BoltzmannConstant(unit_system))

CallVelocityScale == Returns("VelocityScale", VelocityScale(unit_system))

CallAccelerationScale ==
    Returns("AccelerationScale", AccelerationScale(unit_system))

CallForceScale == Returns("ForceScale", ForceScale(unit_system))

CallTractionScale == Returns("TractionScale", TractionScale(unit_system))

CallMomentScale == Returns("MomentScale", MomentScale(unit_system))

CallPotentialScale == Returns("PotentialScale", PotentialScale(unit_system))

CallEnergyScale == Returns("EnergyScale", EnergyScale(unit_system))

Next ==
    \/ CallLengthScale
    \/ CallDensityScale
    \/ CallMassScale
    \/ CallTimeScale
    \/ CallTemperatureScale
    \/ CallGravitationalConstant
    \/ CallBoltzmannConstant
    \/ CallVelocityScale
    \/ CallAccelerationScale
    \/ CallForceScale
    \/ CallTractionScale
    \/ CallMomentScale
    \/ CallPotentialScale
    \/ CallEnergyScale

Spec == Init /\ [][Next]_vars

SpecEx1 == InitEx1 /\ [][Next]_vars

----------------------------------------------------------------------------
\* Vocabulary of the properties

\* the provider declares X and returns a strictly positive value
Positive(X) ==
    /\ Defines(unit_system, X)
    /\ unit_system[X].sgn = 1
    /\ unit_system[X].n > 0

\* the integer the provider's X() returns, when it is positive
L == unit_system.LengthScale.n

M == unit_system.MassScale.n

T == unit_system.TimeScale.n

Rho == unit_system.DensityScale.n

\* the rational x/y times G^g * kB^b * pi^p, written down directly
Rat(x, y, g, b, p) == Fin(1, x, y, 1, 2 * g, 2 * b, 2 * p)

IsValue(r) == r.kind \in {"fin", "inf", "nan"}

BaseScales ==
    {"LengthScale", "DensityScale", "MassScale", "TimeScale",
     "TemperatureScale"}

DerivedScales ==
    {"GravitationalConstant", "BoltzmannConstant", "VelocityScale",
     "AccelerationScale", "ForceScale", "TractionScale", "MomentScale",
     "PotentialScale", "EnergyScale"}

MassFirst ==
    /\ unit_system.variant = "MechanicalMassDimensions"
    /\ ~Defines(unit_system, "DensityScale")

Mechanical ==
    unit_system.variant \in {"MechanicalDimensions", "MechanicalMassDimensions"}

\* the base scales the provider declares are positive, the length and the
\* time are declared, and the density is declared or derived from the mass
ValidInstance ==
    /\ Positive("LengthScale")
    /\ Positive("TimeScale")
    /\ \A X \in {"DensityScale", "MassScale"} :
          Defines(unit_system, X) => Positive(X)
    /\ \/ Defines(unit_system, "DensityScale")
       \/ /\ unit_system.variant = "MechanicalMassDimensions"
          /\ Defines(unit_system, "MassScale")

----------------------------------------------------------------------------
\* C1: in the mass-first variant, with positive LengthScale L and MassScale M,
\* DensityScale() returns M / (L*L*L), whatever TimeScale is (positive, zero,
\* negative or not declared at all).
C1_DensityScaleIsMassOverLengthCubed ==
    (MassFirst /\ Positive("LengthScale") /\ Positive("MassScale")
       /\ call = "DensityScale")
      => ret = Rat(M, L * L * L, 0, 0, 0)

C1_Witness ==
    /\ MassFirst /\ call = "DensityScale"
    /\ unit_system.LengthScale = Real(2)
    /\ unit_system.MassScale = Real(3)
    /\ ~Defines(unit_system, "TimeScale")
    /\ ret = Rat(3, 8, 0, 0, 0)

\* C2: in the mass-first variant, with positive L, M and T, VelocityScale() is
\* L/T, AccelerationScale() is L/T^2, ForceScale() is M*L/T^2 and
\* EnergyScale() is M*L^2/T^2: the mass Dimensions::MassScale recomputes from
\* the derived density is the provider's M.
C2_DerivedScalesUseProviderMass ==
    (MassFirst /\ ValidInstance) =>
      /\ call = "VelocityScale" => ret = Rat(L, T, 0, 0, 0)
      /\ call = "AccelerationScale" => ret = Rat(L, T * T, 0, 0, 0)
      /\ call = "ForceScale" => ret = Rat(M * L, T * T, 0, 0, 0)
      /\ call = "EnergyScale" => ret = Rat(M * L * L, T * T, 0, 0, 0)
      /\ call \in {"ForceScale", "EnergyScale"}
           => Dimensions_MassScale(unit_system) = unit_system.MassScale

C2_Witness ==
    /\ MassFirst /\ ValidInstance /\ call = "ForceScale"
    /\ unit_system.LengthScale = Real(3)
    /\ unit_system.MassScale = Real(2)
    /\ unit_system.TimeScale = Real(2)
    /\ ret = Rat(3, 2, 0, 0, 0)

\* C3: for every valid instance, GravitationalConstant() returns
\* G * DensityScale * TimeScale^2: G * Rho * T^2 when the provider declares
\* the density, G * (M / L^3) * T^2 when the density is derived from the mass.
C3_GravitationalConstantFormula ==
    (ValidInstance /\ call = "GravitationalConstant") =>
      ret = IF Defines(unit_system, "DensityScale")
            THEN Rat(Rho * T * T, 1, 1, 0, 0)
            ELSE Rat(M * T * T, L * L * L, 1, 0, 0)

C3_Witness ==
    /\ MassFirst /\ ValidInstance /\ call = "GravitationalConstant"
    /\ unit_system.LengthScale = Real(2)
    /\ unit_system.MassScale = Real(3)
    /\ unit_system.TimeScale = Real(3)
    /\ ret = Rat(27, 8, 1, 0, 0)

\* C4: in the mechanical variants, when the provider declares no
\* TemperatureScale, TemperatureScale() returns 1 for every choice of the
\* other base scales, and on a valid instance BoltzmannConstant() returns
\* kB * 1 / EnergyScale.
C4_MechanicalTemperatureIsOne ==
    (Mechanical /\ ~Defines(unit_system, "TemperatureScale")) =>
      /\ call = "TemperatureScale" => ret = Rat(1, 1, 0, 0, 0)
      /\ (ValidInstance /\ call = "BoltzmannConstant") =>
           ret = IF Defines(unit_system, "DensityScale")
                 THEN Rat(T * T, Rho * L * L * L * L * L, 0, 1, 0)
                 ELSE Rat(T * T, M * L * L, 0, 1, 0)

C4_Witness ==
    /\ MassFirst /\ ValidInstance /\ call = "BoltzmannConstant"
    /\ ~Defines(unit_system, "TemperatureScale")
    /\ unit_system.LengthScale = Real(2)
    /\ unit_system.MassScale = Real(3)
    /\ unit_system.TimeScale = Real(3)
    /\ ret = Rat(3, 4, 0, 1, 0)

C6_DefaultTemperatureScale ==
    (unit_system.variant = "Dimensions" /\ ValidInstance) =>
      /\ (~Defines(unit_system, "TemperatureScale")
            /\ call = "TemperatureScale")
           => ret = Rat(Rho * L * L * L * L * L, T * T, 0, -1, 0)
      /\ (~Defines(unit_system, "TemperatureScale")
            /\ call = "BoltzmannConstant")
           => ret = Rat(1, 1, 0, 0, 0)
      /\ (Defines(unit_system, "TemperatureScale")
            /\ call = "TemperatureScale")
           => ret = unit_system.TemperatureScale

\* C7: a provider that declares no LengthScale, or neither DensityScale nor
\* MassScale, and whose declared scales are all positive, yields no usable
\* instance: no accessor called on it returns a value.
C7_MissingBaseScaleReturnsNothing ==
    ((\/ ~Defines(unit_system, "LengthScale")
      \/ /\ ~Defines(unit_system, "DensityScale")
         /\ ~Defines(unit_system, "MassScale"))
       /\ (\A X \in BaseScales : Defines(unit_system, X) => Positive(X))
       /\ call \in BaseScales \cup DerivedScales)
      => ~IsValue(ret)

\* C8: on an instance that declares LengthScale, TimeScale and its density
\* or mass, no derived accessor returns a value computed from a zero or
\* negative LengthScale, DensityScale, MassScale or TimeScale.
C8_InvalidScaleReturnsNothing ==
    LET Invalid(X) == Defines(unit_system, X) /\ ~Positive(X)
        usesMass == {"ForceScale", "TractionScale", "MomentScale",
                     "EnergyScale", "BoltzmannConstant"}
        usesTime == usesMass \cup {"VelocityScale", "AccelerationScale",
                                   "PotentialScale", "GravitationalConstant"}
        usesLength == usesMass \cup {"VelocityScale", "AccelerationScale",
                                     "PotentialScale"}
    IN  (/\ Defines(unit_system, "LengthScale")
         /\ Defines(unit_system, "TimeScale")
         /\ \/ Defines(unit_system, "DensityScale")
            \/ MassFirst /\ Defines(unit_system, "MassScale"))
        =>
        /\ (Invalid("LengthScale") /\ call \in usesLength) => ~IsValue(ret)
        /\ (Invalid("LengthScale") /\ MassFirst /\ call = "DensityScale")
             => ~IsValue(ret)
        /\ (Invalid("TimeScale") /\ call \in usesTime) => ~IsValue(ret)
        /\ (Invalid("DensityScale")
              /\ call \in usesMass \cup {"GravitationalConstant"})
             => ~IsValue(ret)
        /\ (Invalid("MassScale") /\ MassFirst
              /\ call \in usesMass \cup {"DensityScale",
                                         "GravitationalConstant"})
             => ~IsValue(ret)

\* C9: when a provider declares both DensityScale and MassScale, MassScale()
\* and DensityScale() return the declared values, ForceScale() returns the
\* declared mass times AccelerationScale and EnergyScale() returns the
\* declared mass times VelocityScale squared.
C9_DeclaredMassIsUsed ==
    (ValidInstance /\ Defines(unit_system, "DensityScale")
       /\ Defines(unit_system, "MassScale")) =>
      /\ call = "MassScale" => ret = unit_system.MassScale
      /\ call = "DensityScale" => ret = unit_system.DensityScale
      /\ call = "ForceScale" => ret = Rat(M * L, T * T, 0, 0, 0)
      /\ call = "EnergyScale" => ret = Rat(M * L * L, T * T, 0, 0, 0)

\* C10: on every valid instance EnergyScale() equals ForceScale() times
\* LengthScale(), and equals MomentScale().
C10_EnergyIsForceTimesLength ==
    ValidInstance =>
      /\ call = "EnergyScale" =>
           /\ ret = Mul(ForceScale(unit_system), LengthScale(unit_system))
           /\ ret = MomentScale(unit_system)
      /\ call = "MomentScale" => ret = EnergyScale(unit_system)

C10_Witness ==
    /\ ValidInstance /\ call = "EnergyScale"
    /\ unit_system.variant = "Dimensions"
    /\ unit_system.LengthScale = Real(2)
    /\ unit_system.DensityScale = Real(3)
    /\ unit_system.TimeScale = Real(3)
    /\ ret = Rat(32, 3, 0, 0, 0)

====
